---- MODULE Spec2Model ----
(***************************************************************************)
(* cobra/model_building/models.py: LogisticRegressionModel, a wrapper      *)
(* around scikit-learn's LogisticRegression that remembers the predictor   *)
(* columns of the training table and memoises one AUC per split name.      *)
(*                                                                         *)
(* A table (pandas DataFrame) is a sequence of columns, each a record      *)
(* [name, data] with data the sequence of the column's row values.  A      *)
(* label vector (pandas Series) is a sequence of 0/1, one per row.         *)
(* Probabilities and AUC values are integers in percent (0..100).          *)
(***************************************************************************)
EXTENDS Integers, Sequences, FiniteSets, TLC

\* ---------------------------------------------------------------- bounds
MaxCols == 2        \* a table has at most MaxCols columns
NDatasets == 3      \* number of datasets the calls draw their (X, y) from
NRows == 2          \* observations per dataset

\* ---------------------------------------------------------------- inputs
Names == {"a", "b"}
Splits == {"train", "validation"}
\* the value of evaluate's split argument when the caller omits it
NoSplit == "<no split given>"
SplitArgs == Splits \cup {NoSplit}

Idx(name) == IF name = "a" THEN 1 ELSE 2

\* value of column `name` in row r of dataset d
Data(d, name, r) == (d * Idx(name) + r) % 2

\* label of row r of dataset d; every third dataset holds a single class
Label(d, r) == IF d % 3 = 0 THEN 1 ELSE (r + 1) % 2

Range(s) == {s[i] : i \in DOMAIN s}

\* column-name lists of the input tables: names unique within a table
ColLists ==
  {c \in UNION {[1..n -> Names] : n \in 0..MaxCols} :
     \A i, j \in DOMAIN c : c[i] = c[j] => i = j}

Table(cols, d) ==
  [i \in 1..Len(cols) |->
     [name |-> cols[i], data |-> [r \in 1..NRows |-> Data(d, cols[i], r)]]]

Labels(d) == [r \in 1..NRows |-> Label(d, r)]

Tables == {Table(c, d) : c \in ColLists, d \in 1..NDatasets}

\* the (X, y) pairs handed to fit and evaluate
Samples ==
  {[X |-> Table(c, d), y |-> Labels(d)] : c \in ColLists, d \in 1..NDatasets}

\* ---------------------------------------------------------------- pandas
\* list(X.columns)
Columns(X) == [i \in 1..Len(X) |-> X[i].name]

HasColumn(X, p) == \E i \in DOMAIN X : X[i].name = p

\* the columns of X named p, in X's order
Named(X, p) == SelectSeq(X, LAMBDA col : col.name = p)

RECURSIVE SelectFrom(_, _, _)
SelectFrom(X, preds, i) ==
  IF i > Len(preds) THEN <<>>
  ELSE Named(X, preds[i]) \o SelectFrom(X, preds, i + 1)

\* X[preds] without re-projection: the table as the caller passed it
SelectAsGiven(X, preds) == X

\* X[preds]: the columns named in preds, in the order of preds
Select(X, preds) == SelectFrom(X, preds, 1)

\* X[preds] by a selection that never raises (missing names are skipped)
SelectNeverRaises(X, preds) == FALSE

\* X[preds] raises KeyError when a name of preds is no column of X
SelectRaises(X, preds) == \E i \in DOMAIN preds : ~HasColumn(X, preds[i])

\* --------------------------------------------------------------- sklearn
RECURSIVE SumTo(_, _)
SumTo(f, n) == IF n = 0 THEN 0 ELSE f[n] + SumTo(f, n - 1)

Sum(f) == SumTo(f, Len(f))

\* LogisticRegression() before fit: no coef_, no intercept_
Unfitted ==
  [fitted |-> FALSE, coef |-> <<>>, intercept |-> 0, feature_names |-> <<>>]

\* LogisticRegression.fit raises ValueError: no feature, or a single class
TrainRaises(X, y) == Len(X) = 0 \/ Cardinality(Range(y)) < 2

\* The estimate of LogisticRegression.fit, abstracted as a deterministic
\* function of (X, y) with one coefficient per column, in column order:
\* the sum over the rows of the signed (+1 positive, -1 negative) value.
Train(X, y) ==
  [fitted |-> TRUE,
   coef |-> [i \in 1..Len(X) |->
               Sum([r \in 1..Len(y) |-> (2 * y[r] - 1) * X[i].data[r]])],
   intercept |-> Sum([r \in 1..Len(y) |-> 2 * y[r] - 1]),
   feature_names |-> Columns(X)]

\* the logistic function in percent, monotone in z
Sigmoid(z) ==
  IF z <= -3 THEN 5
  ELSE IF z >= 3 THEN 95
  ELSE CASE z = -2 -> 12 [] z = -1 -> 27 [] z = 0 -> 50
         [] z = 1 -> 73 [] z = 2 -> 88

\* predict_proba(F)[:, 1]: positive-class probability of every row of F,
\* the i-th column of F weighted by the i-th coefficient
PredictProba(lg, F) ==
  [r \in 1..NRows |->
     Sigmoid(lg.intercept
             + Sum([i \in 1..Len(F) |-> lg.coef[i] * F[i].data[r]]))]

\* roc_auc_score raises ValueError when y_true holds a single class
AucRaises(y) == Cardinality(Range(y)) < 2

\* roc_auc_score in percent: over the (positive, negative) row pairs, the
\* share ranked correctly, a tie counting one half
RocAucScore(y, s) ==
  LET pairs == {p \in (DOMAIN y) \X (DOMAIN y) : y[p[1]] = 1 /\ y[p[2]] = 0}
      wins == Cardinality({p \in pairs : s[p[1]] > s[p[2]]})
      ties == Cardinality({p \in pairs : s[p[1]] = s[p[2]]})
  IN (100 * (2 * wins + ties)) \div (2 * Cardinality(pairs))

\* ----------------------------------------------------------------- state
VARIABLES
  predictors,              \* self.predictors
  logit,                   \* self.logit (the fitted state of the classifier)
  eval_metrics_by_split,   \* self._eval_metrics_by_split
  last,                    \* the call just made: arguments and outcome
  threads                  \* the read-only calls in progress, per thread

vars == <<predictors, logit, eval_metrics_by_split, last, threads>>

Threads == {"t1", "t2"}

\* a thread that is in no call
Idle ==
  [pc |-> "idle", op |-> "", X |-> <<>>, preds |-> <<>>,
   outcome |-> "", result |-> <<>>]

Call(op, X, y, split_arg, outcome, result, scored) ==
  [op |-> op, X |-> X, y |-> y, split_arg |-> split_arg,
   outcome |-> outcome, result |-> result, scored |-> scored]

\* __init__
Init ==
  /\ predictors = <<>>
  /\ logit = Unfitted
  /\ eval_metrics_by_split = <<>>
  /\ last = Call("__init__", <<>>, <<>>, NoSplit, "ok", <<>>, FALSE)
  /\ threads = [t \in Threads |-> Idle]

\* ------------------------------------------------------------- accessors
\* get_coef: self.logit.coef_[0]
GetCoefOutcome(lg) == IF lg.fitted THEN "ok" ELSE "AttributeError"
GetCoefValue(lg) == lg.coef

\* get_intercept: self.logit.intercept_[0]
GetInterceptValue(lg) == <<lg.intercept>>

\* zip(preds, coef) pairing the names with the coefficients back to front
ZipReversed(preds, coef) ==
  LET n == IF Len(preds) < Len(coef) THEN Len(preds) ELSE Len(coef)
  IN [i \in 1..n |-> <<preds[i], coef[n + 1 - i]>>]

\* zip(preds, coef): positional pairs, as long as the shorter sequence
Zip(preds, coef) ==
  LET n == IF Len(preds) < Len(coef) THEN Len(preds) ELSE Len(coef)
  IN [i \in 1..n |-> <<preds[i], coef[i]>>]

\* dict(pairs): a later pair with the same key replaces an earlier one
Dict(pairs) ==
  [k \in {pairs[i][1] : i \in DOMAIN pairs} |->
     LET at == {i \in DOMAIN pairs : pairs[i][1] = k}
         hi == CHOOSE i \in at : \A j \in at : j <= i
     IN pairs[hi][2]]

\* get_coef_by_predictor: dict(zip(self.predictors, self.logit.coef_[0]))
GetCoefByPredictorValue(preds, lg) == Dict(Zip(preds, lg.coef))

GetCoef ==
  /\ last' = Call("get_coef", <<>>, <<>>, NoSplit, GetCoefOutcome(logit),
                  IF logit.fitted THEN GetCoefValue(logit) ELSE <<>>, FALSE)
  /\ UNCHANGED <<predictors, logit, eval_metrics_by_split, threads>>

GetIntercept ==
  /\ last' = Call("get_intercept", <<>>, <<>>, NoSplit, GetCoefOutcome(logit),
                  IF logit.fitted THEN GetInterceptValue(logit) ELSE <<>>,
                  FALSE)
  /\ UNCHANGED <<predictors, logit, eval_metrics_by_split, threads>>

GetCoefByPredictor ==
  /\ last' = Call("get_coef_by_predictor", <<>>, <<>>, NoSplit,
                  GetCoefOutcome(logit), <<>>, FALSE)
  /\ UNCHANGED <<predictors, logit, eval_metrics_by_split, threads>>

\* ------------------------------------------------------------------- fit
\* list(X_train.columns) with the names put in alphabetical order
ColumnsSorted(X) ==
  LET c == Columns(X)
  IN IF Len(c) = 2 /\ c[1] = "b" /\ c[2] = "a" THEN <<"a", "b">> ELSE c

\* the value fit assigns to self.predictors
FitPredictors(X) == Columns(X)

\* the cache after a fit that also clears it
FitCacheCleared(cache) == <<>>

\* the cache after fit: fit does not touch it
FitCache(cache) == cache

Fit(X, y) ==
  /\ predictors' = FitPredictors(X)
  /\ logit' = IF TrainRaises(X, y) THEN logit ELSE Train(X, y)
  /\ eval_metrics_by_split' = FitCache(eval_metrics_by_split)
  /\ last' = Call("fit", X, y, NoSplit,
                  IF TrainRaises(X, y) THEN "ValueError" ELSE "ok",
                  <<>>, FALSE)
  /\ UNCHANGED threads

\* ----------------------------------------------------------- score_model
\* self.logit.predict_proba(X[self.predictors])[:, 1]: the column
\* selection first, then the classifier's own checks
ScoreOutcome(preds, lg, X) ==
  IF SelectRaises(X, preds) THEN "KeyError"
  ELSE IF ~lg.fitted THEN "NotFittedError"
  ELSE IF Len(Select(X, preds)) # Len(lg.coef) THEN "ValueError"
  ELSE "ok"

ScoreValue(preds, lg, X) ==
  IF ScoreOutcome(preds, lg, X) = "ok"
  THEN PredictProba(lg, Select(X, preds))
  ELSE <<>>

ScoreModel(X) ==
  /\ last' = Call("score_model", X, <<>>, NoSplit,
                  ScoreOutcome(predictors, logit, X),
                  ScoreValue(predictors, logit, X), FALSE)
  /\ UNCHANGED <<predictors, logit, eval_metrics_by_split, threads>>

\* -------------------------------------------------------------- evaluate
\* the split name evaluate works with: the default is "train"
SplitOf(split_arg) == IF split_arg = NoSplit THEN "train" ELSE split_arg

\* a test for a falsy cached value instead of a missing one
CacheMissFalsy(cache, split) ==
  split \notin DOMAIN cache \/ cache[split] = 0

\* self._eval_metrics_by_split.get(split) is None
CacheMiss(cache, split) == split \notin DOMAIN cache

\* a store that keeps no other entry
StoreAlone(cache, split, value) == [s \in {split} |-> value]

\* self._eval_metrics_by_split[split] = value
Store(cache, split, value) ==
  [s \in DOMAIN cache \cup {split} |-> IF s = split THEN value ELSE cache[s]]

EvalOutcome(preds, lg, X, y) ==
  IF ScoreOutcome(preds, lg, X) # "ok" THEN ScoreOutcome(preds, lg, X)
  ELSE IF AucRaises(y) THEN "ValueError"
  ELSE "ok"

\* an entry written before the score is known, left behind by a failure
EvalCacheEager(cache, split, X, y, preds, lg) ==
  IF ~CacheMiss(cache, split) THEN cache
  ELSE IF EvalOutcome(preds, lg, X, y) = "ok"
  THEN Store(cache, split, RocAucScore(y, ScoreValue(preds, lg, X)))
  ELSE Store(cache, split, 0)

\* the cache after evaluate: the assignment runs only on a miss, and only
\* once score_model and roc_auc_score have returned
EvalCache(cache, split, X, y, preds, lg) ==
  IF CacheMiss(cache, split) /\ EvalOutcome(preds, lg, X, y) = "ok"
  THEN Store(cache, split, RocAucScore(y, ScoreValue(preds, lg, X)))
  ELSE cache

Evaluate(X, y, split_arg) ==
  LET split == SplitOf(split_arg)
      miss == CacheMiss(eval_metrics_by_split, split)
      outcome == IF miss THEN EvalOutcome(predictors, logit, X, y) ELSE "ok"
  IN /\ eval_metrics_by_split' =
          EvalCache(eval_metrics_by_split, split, X, y, predictors, logit)
     /\ last' = Call("evaluate", X, y, split_arg, outcome,
                     IF outcome = "ok"
                     THEN <<eval_metrics_by_split'[split]>> ELSE <<>>,
                     miss)
     /\ UNCHANGED <<predictors, logit, threads>>

\* ------------------------------------------------------------------ spec
Next ==
  \/ \E s \in Samples : Fit(s.X, s.y)
  \/ \E X \in Tables : ScoreModel(X)
  \/ \E s \in Samples, a \in SplitArgs : Evaluate(s.X, s.y, a)
  \/ GetCoef
  \/ GetIntercept
  \/ GetCoefByPredictor

Spec == Init /\ [][Next]_vars

\* ------------------------------------------------- concurrent read calls
\* The read-only methods called from several threads on a model that was
\* fitted and evaluated once.  A call is interleaved with the others at its
\* attribute reads: self.predictors first (score_model and
\* get_coef_by_predictor), then the classifier's parameters.
ReadOps ==
  {"score_model", "get_coef", "get_intercept", "get_coef_by_predictor"}

ReadsPredictors(op) == op \in {"score_model", "get_coef_by_predictor"}

\* the outcome and result of read-only method op, from the predictor list
\* and the classifier it read
ReadResult(op, preds, lg, X) ==
  CASE op = "score_model" ->
         [outcome |-> ScoreOutcome(preds, lg, X),
          result |-> ScoreValue(preds, lg, X)]
    [] op = "get_coef" ->
         [outcome |-> GetCoefOutcome(lg),
          result |-> IF lg.fitted THEN GetCoefValue(lg) ELSE <<>>]
    [] op = "get_intercept" ->
         [outcome |-> GetCoefOutcome(lg),
          result |-> IF lg.fitted THEN GetInterceptValue(lg) ELSE <<>>]
    [] op = "get_coef_by_predictor" ->
         [outcome |-> GetCoefOutcome(lg),
          result |-> IF lg.fitted THEN Zip(preds, lg.coef) ELSE <<>>]

\* a thread enters one of the read-only methods
Invoke(t, op, X) ==
  /\ threads[t].pc = "idle"
  /\ threads' = [threads EXCEPT ![t] = [Idle EXCEPT !.pc = "called",
                                                    !.op = op, !.X = X]]
  /\ UNCHANGED <<predictors, logit, eval_metrics_by_split, last>>

\* a score_model that stores the columns of the table it scores back into
\* self.predictors while it reads it
ReadPredictorsRecording(t) ==
  /\ threads[t].pc = "called"
  /\ ReadsPredictors(threads[t].op)
  /\ threads' = [threads EXCEPT ![t].pc = "selected",
                                ![t].preds = predictors]
  /\ predictors' = IF threads[t].op = "score_model"
                   THEN Columns(threads[t].X) ELSE predictors
  /\ UNCHANGED <<logit, eval_metrics_by_split, last>>

\* the thread evaluates self.predictors
ReadPredictors(t) ==
  /\ threads[t].pc = "called"
  /\ ReadsPredictors(threads[t].op)
  /\ threads' = [threads EXCEPT ![t].pc = "selected",
                                ![t].preds = predictors]
  /\ UNCHANGED <<predictors, logit, eval_metrics_by_split, last>>

\* the thread reads the classifier's parameters and returns
ReadLogit(t) ==
  /\ IF ReadsPredictors(threads[t].op)
     THEN threads[t].pc = "selected"
     ELSE threads[t].pc = "called"
  /\ LET r == ReadResult(threads[t].op, threads[t].preds, logit,
                         threads[t].X)
     IN threads' = [threads EXCEPT ![t].pc = "returned",
                                   ![t].outcome = r.outcome,
                                   ![t].result = r.result]
  /\ UNCHANGED <<predictors, logit, eval_metrics_by_split, last>>

\* the caller takes the result; the thread is free for the next call
Collect(t) ==
  /\ threads[t].pc = "returned"
  /\ threads' = [threads EXCEPT ![t] = Idle]
  /\ UNCHANGED <<predictors, logit, eval_metrics_by_split, last>>

\* the model after one successful fit(s) followed by one evaluate(e)
InitReaders ==
  \E s \in Samples, e \in Samples :
    /\ ~TrainRaises(s.X, s.y)
    /\ predictors = FitPredictors(s.X)
    /\ logit = Train(s.X, s.y)
    /\ eval_metrics_by_split =
         EvalCache(<<>>, "train", e.X, e.y, predictors, logit)
    /\ last = Call("evaluate", e.X, e.y, NoSplit,
                   EvalOutcome(predictors, logit, e.X, e.y),
                   IF EvalOutcome(predictors, logit, e.X, e.y) = "ok"
                   THEN <<eval_metrics_by_split["train"]>> ELSE <<>>,
                   TRUE)
    /\ threads = [t \in Threads |-> Idle]

NextReaders ==
  \E t \in Threads :
    \/ \E X \in Tables : Invoke(t, "score_model", X)
    \/ \E op \in ReadOps \ {"score_model"} : Invoke(t, op, <<>>)
    \/ ReadPredictors(t)
    \/ ReadLogit(t)
    \/ Collect(t)

SpecReaders == InitReaders /\ [][NextReaders]_vars

\* ---------------------------------------------------------------- claims
\* the split name the last call worked with
LastSplit == IF last.split_arg = NoSplit THEN "train" ELSE last.split_arg

ColumnSet(X) == {X[i].name : i \in DOMAIN X}

\* C1: cache-freeze.  An entry of the evaluation cache is never overwritten
\* or removed; an evaluate that returns v for split s leaves v stored under
\* s; and an evaluate on a split that is already cached returns the cached
\* value whatever X and y are, without running score_model or the AUC.
C1_CacheFreeze ==
  [][/\ \A s \in DOMAIN eval_metrics_by_split :
          /\ s \in DOMAIN eval_metrics_by_split'
          /\ eval_metrics_by_split'[s] = eval_metrics_by_split[s]
     /\ last'.op = "evaluate" /\ last'.outcome = "ok" =>
          /\ LastSplit' \in DOMAIN eval_metrics_by_split'
          /\ last'.result = <<eval_metrics_by_split'[LastSplit']>>
     /\ last'.op = "evaluate" /\ LastSplit' \in DOMAIN eval_metrics_by_split =>
          /\ last'.outcome = "ok"
          /\ last'.result = <<eval_metrics_by_split[LastSplit']>>
          /\ ~last'.scored]_vars

\* C1 witness: an evaluate answered from the cache although scoring its own
\* (X, y) would have given another value
C1_Witness ==
  /\ last.op = "evaluate" /\ ~last.scored /\ last.outcome = "ok"
  /\ EvalOutcome(predictors, logit, last.X, last.y) = "ok"
  /\ <<RocAucScore(last.y, ScoreValue(predictors, logit, last.X))>>
       # last.result

\* C2 as stated: once fit has succeeded on a non-empty table, no later
\* operation that succeeds changes the predictor list
C2_FixedAfterFirstFit ==
  [][logit.fitted /\ predictors # <<>> /\ last'.outcome = "ok"
       => predictors' = predictors]_vars

\* C2 amended: the predictor list is empty at construction, only fit changes
\* it, and every fit sets it to the column names of its table
C2_OnlyFitSetsPredictors ==
  [][/\ predictors' # predictors => last'.op = "fit"
     /\ last'.op = "fit" => predictors' = Columns(last'.X)
     /\ last.op = "__init__" => predictors = <<>>]_vars

\* C2 witness: a later fit has moved the predictor list away from the
\* columns the classifier was first fitted on
C2_Witness ==
  /\ last.op = "fit" /\ logit.fitted
  /\ predictors # <<>> /\ predictors # logit.feature_names

\* C3: a fit sets the predictor list to the column names of X in order,
\* re-estimates the classifier when the classifier's fit returns, and leaves
\* every cached score in place
C3_FitKeepsCache ==
  [][last'.op = "fit" =>
       /\ predictors' = Columns(last'.X)
       /\ last'.outcome = "ok" => logit' = Train(last'.X, last'.y)
       /\ eval_metrics_by_split' = eval_metrics_by_split]_vars

\* C3 witness: a successful re-fit with scores of the earlier fit cached
C3_Witness ==
  /\ last.op = "fit" /\ last.outcome = "ok"
  /\ DOMAIN eval_metrics_by_split = Splits

\* C4: on a fitted model the result of score_model(X) is the result for any
\* other table that holds the same data in the stored predictor columns,
\* whatever its column order and its other columns
C4_ScoreByStoredPredictors ==
  last.op = "score_model" /\ logit.fitted =>
    \A X2 \in Tables :
      (\A p \in Range(predictors) : Named(last.X, p) = Named(X2, p)) =>
        /\ last.outcome = ScoreOutcome(predictors, logit, X2)
        /\ last.result = ScoreValue(predictors, logit, X2)

\* C4 witness: two predictors scored from a table that lists them in the
\* other order
C4_Witness ==
  /\ last.op = "score_model" /\ last.outcome = "ok"
  /\ Len(predictors) = 2
  /\ Columns(last.X) = <<predictors[2], predictors[1]>>
  /\ logit.coef[1] # logit.coef[2]

\* C5: on a cache miss evaluate runs score_model, and when that and the AUC
\* succeed it returns the AUC of the scores against y and stores it under
\* the split name ("train" when none is given), every other entry unchanged
C5_EvaluateMiss ==
  [][last'.op = "evaluate" /\ LastSplit' \notin DOMAIN eval_metrics_by_split =>
       /\ last'.scored
       /\ last'.outcome = "ok" =>
            /\ last'.result =
                 <<RocAucScore(last'.y,
                               ScoreValue(predictors, logit, last'.X))>>
            /\ DOMAIN eval_metrics_by_split' =
                 DOMAIN eval_metrics_by_split \cup {LastSplit'}
            /\ eval_metrics_by_split'[LastSplit'] = last'.result[1]
            /\ \A s \in DOMAIN eval_metrics_by_split :
                 eval_metrics_by_split'[s] = eval_metrics_by_split[s]]_vars

\* C5 witness: evaluate without a split argument has filled "train" next to
\* an entry for another split
C5_Witness ==
  /\ last.op = "evaluate" /\ last.scored /\ last.outcome = "ok"
  /\ last.split_arg = NoSplit
  /\ DOMAIN eval_metrics_by_split = Splits
  /\ last.result = <<eval_metrics_by_split["train"]>>

\* C6: after a successful fit on a table of N uniquely named columns,
\* get_coef has length N, get_coef_by_predictor has the column names of X
\* as keys, and it maps the i-th predictor to the i-th coefficient
C6_CoefByPredictor ==
  /\ last.op = "fit" /\ last.outcome = "ok"
  /\ Cardinality(ColumnSet(last.X)) = Len(last.X)
  => /\ Len(GetCoefValue(logit)) = Len(last.X)
     /\ DOMAIN GetCoefByPredictorValue(predictors, logit) = ColumnSet(last.X)
     /\ \A i \in 1..Len(predictors) :
          GetCoefByPredictorValue(predictors, logit)[predictors[i]]
            = GetCoefValue(logit)[i]

\* C6 witness: a successful fit on two columns with different coefficients
C6_Witness ==
  /\ last.op = "fit" /\ last.outcome = "ok"
  /\ Len(last.X) = 2
  /\ logit.coef[1] # logit.coef[2]

\* C7: when X lacks a stored predictor column, score_model raises the
\* column selection's KeyError and returns no scores, also when it runs
\* inside evaluate
C7_MissingColumnRaises ==
  /\ last.op = "score_model" \/ (last.op = "evaluate" /\ last.scored)
  /\ \E p \in Range(predictors) : p \notin ColumnSet(last.X)
  => /\ last.outcome = "KeyError"
     /\ last.result = <<>>

\* C7 witness: an evaluate on a fitted model that failed in the column
\* selection
C7_Witness ==
  /\ last.op = "evaluate" /\ last.scored /\ last.outcome = "KeyError"
  /\ logit.fitted /\ predictors = logit.feature_names

\* C8: with fit completed and no further fit, concurrent score_model,
\* get_coef, get_intercept and get_coef_by_predictor calls, interleaved at
\* their reads of the model's attributes, never change the predictor list,
\* the classifier or the cache, and each call returns what it would return
\* run alone on the model
C8_ReadersSequential ==
  [][/\ predictors' = predictors
     /\ logit' = logit
     /\ eval_metrics_by_split' = eval_metrics_by_split
     /\ \A t \in Threads :
          threads'[t].pc = "returned" =>
            LET r == ReadResult(threads'[t].op, predictors', logit',
                                threads'[t].X)
            IN /\ threads'[t].outcome = r.outcome
               /\ threads'[t].result = r.result]_vars

\* C8 witness: one thread has returned scores while the other is between
\* its read of the predictor list and its read of the classifier
C8_Witness ==
  /\ threads["t1"].pc = "returned" /\ threads["t1"].op = "score_model"
  /\ threads["t1"].outcome = "ok"
  /\ threads["t2"].pc = "selected"
  /\ threads["t2"].op = "get_coef_by_predictor"

\* C9: whenever the classifier is fitted, the predictor list is the column
\* list its parameters were estimated on, as long as the coefficient vector
C9_PredictorsMatchFit ==
  logit.fitted =>
    /\ predictors = logit.feature_names
    /\ Len(predictors) = Len(logit.coef)

\* C10: an evaluate that fails leaves the cache as it was, with no entry
\* for its split, and the cache holds nothing but AUC values
C10_FailedEvaluateKeepsCache ==
  [][/\ last'.op = "evaluate" /\ last'.outcome # "ok" =>
          /\ eval_metrics_by_split' = eval_metrics_by_split
          /\ LastSplit' \notin DOMAIN eval_metrics_by_split'
     /\ \A s \in DOMAIN eval_metrics_by_split' :
          eval_metrics_by_split'[s] \in 0..100]_vars

\* C10 witness: the AUC raised on a fitted model holding all predictor
\* columns, and the split is still uncached
C10_Witness ==
  /\ last.op = "evaluate" /\ last.outcome = "ValueError"
  /\ ScoreOutcome(predictors, logit, last.X) = "ok"
  /\ LastSplit \notin DOMAIN eval_metrics_by_split

====
